---- MODULE Spec2Model ----
(***************************************************************************)
(* State-machine model of s3-proxy (src/src/main.rs): the main task with   *)
(* its shutdown flag and grace timer, and the request tasks that run       *)
(* handle_request / proxy_handler against an upstream that may answer,     *)
(* fail at transport level, or stay silent until the per-attempt timeout.  *)
(***************************************************************************)
EXTENDS Integers, Sequences, FiniteSets, Bags, TLC

(* ------------------------------------------------------------------ *)
(* Program constants                                                   *)
(* ------------------------------------------------------------------ *)
MAX_RETRIES == 3
BACKOFF_UNIT_MS == 1000
JITTER_RANGE_MS == 1000

StatusOk == 200
StatusBadRequest == 400
StatusInternalServerError == 500
StatusBadGateway == 502
StatusServiceUnavailable == 503
StatusGatewayTimeout == 504

HealthPath == <<"/healthz">>

BodyOk == <<"OK">>
BodyShuttingDown == <<"Server is shutting down">>
BodyInvalid == <<"Invalid S3 request">>
BodyInternal == <<"Internal Server Error">>
BodyBadGateway == <<"Bad Gateway">>
BodyGatewayTimeout == <<"Gateway Timeout">>

(* ------------------------------------------------------------------ *)
(* Bounds of the model                                                 *)
(* ------------------------------------------------------------------ *)
NumReqs == 2
MaxTarget == 3
MaxHeaders == 2

Reqs == 1..NumReqs

(* ------------------------------------------------------------------ *)
(* Sequences helpers                                                   *)
(* ------------------------------------------------------------------ *)
SeqsUpTo(S, n) == UNION {[1..k -> S] : k \in 0..n}

RECURSIVE IndexOf(_, _, _)
(* first index >= i of token c in s, or 0 *)
IndexOf(s, c, i) ==
    IF i > Len(s) THEN 0
    ELSE IF s[i] = c THEN i
    ELSE IndexOf(s, c, i + 1)

(* ------------------------------------------------------------------ *)
(* URIs: a text is a sequence of tokens; "?" separates path and query  *)
(* ------------------------------------------------------------------ *)
NoQuery == <<"<none>">>

(* Uri::path of a request target: the text before the first "?" *)
UriPath(text) ==
    LET i == IndexOf(text, "?", 1)
    IN IF i = 0 THEN text ELSE SubSeq(text, 1, i - 1)

(* Uri::query of a request target: the text after the first "?", if any *)
UriQuery(text) ==
    LET i == IndexOf(text, "?", 1)
    IN IF i = 0 THEN NoQuery ELSE SubSeq(text, i + 1, Len(text))

NoScheme == "<none>"
NoAuthority == [host |-> "<none>", port |-> "<none>"]
NoPath == <<"<none>">>
UriError == [ok |-> FALSE, scheme |-> NoScheme, authority |-> NoAuthority,
             path |-> NoPath, query |-> NoQuery]

(* format!("?{}", q) or the empty string *)
FormatQuery(query) ==
    IF query = NoQuery THEN <<>> ELSE <<"?">> \o query

(* Uri::from_parts: a scheme needs an authority and a path; an authority
   with a path needs a scheme *)
FromParts(scheme, authority, pq) ==
    IF scheme # NoScheme /\ authority = NoAuthority THEN UriError
    ELSE IF scheme = NoScheme /\ authority # NoAuthority THEN UriError
    ELSE [ok |-> TRUE, scheme |-> scheme, authority |-> authority,
          path |-> UriPath(pq), query |-> UriQuery(pq)]

(* mutant: the query of the request is dropped *)
construct_uri_without_query(base_uri, request_target) ==
    FromParts(base_uri.scheme, base_uri.authority, UriPath(request_target))

construct_uri(base_uri, request_target) ==
    LET path == UriPath(request_target)
        query == FormatQuery(UriQuery(request_target))
    IN FromParts(base_uri.scheme, base_uri.authority, path \o query)

(* Display of a Uri *)
UriText(u) ==
    (IF u.scheme = NoScheme THEN <<>> ELSE <<u.scheme, "://">>)
    \o (IF u.authority = NoAuthority THEN <<>>
        ELSE <<u.authority.host, ":", u.authority.port>>)
    \o u.path
    \o (IF u.query = NoQuery THEN <<>> ELSE <<"?">> \o u.query)

(* ------------------------------------------------------------------ *)
(* Headers: HeaderName is stored in lower case; comparing a HeaderName *)
(* with a str ignores ASCII case                                       *)
(* ------------------------------------------------------------------ *)
Lower(name) ==
    CASE name = "Host" -> "host"
      [] name = "HOST" -> "host"
      [] name = "X-Amz-Date" -> "x-amz-date"
      [] OTHER -> name

eq_ignore_ascii_case(a, b) == Lower(a) = Lower(b)

(* the HeaderMap hyper builds from the header lines of a request *)
ParseHeaders(lines) ==
    [i \in 1..Len(lines) |-> [name |-> Lower(lines[i].name), value |-> lines[i].value]]

RECURSIVE HeaderIter(_)
(* HeaderMap::iter: names in order of first insertion, the values of one
   name together, in insertion order *)
HeaderIter(entries) ==
    IF entries = <<>> THEN <<>>
    ELSE LET n == entries[1].name
         IN SelectSeq(entries, LAMBDA e : e.name = n)
            \o HeaderIter(SelectSeq(entries, LAMBDA e : e.name # n))

(* mutant: the name is compared with its capitalised spelling *)
ForwardedHeadersCapitalised(headers) ==
    SelectSeq(HeaderIter(headers), LAMBDA e : e.name # "Host")

(* the loop of lines 205-209 *)
ForwardedHeaders(headers) ==
    SelectSeq(HeaderIter(headers), LAMBDA e : ~eq_ignore_ascii_case(e.name, "host"))

(* ------------------------------------------------------------------ *)
(* Bodies: a body stream is a sequence of chunks; to_bytes reads the   *)
(* stream to its end and concatenates                                  *)
(* ------------------------------------------------------------------ *)
RECURSIVE to_bytes(_)
to_bytes(chunks) ==
    IF chunks = <<>> THEN <<>> ELSE Head(chunks) \o to_bytes(Tail(chunks))

(* what a peer sends: the bytes, and the chunks they arrive in *)
Streams ==
    { [bytes |-> <<>>, chunks |-> <<>>],
      [bytes |-> <<"h", "i">>, chunks |-> << <<"h">>, <<"i">> >>] }

(* ------------------------------------------------------------------ *)
(* The environment: incoming requests, upstream responses, jitter      *)
(* ------------------------------------------------------------------ *)
Methods == {"GET", "PUT"}
HeaderNames == {"Host", "host", "x-amz-date"}
HeaderValues == {"a", "b"}
HeaderLines == [name : HeaderNames, value : HeaderValues]
PathTokens == {"/healthz", "/bucket/key"}
TargetTokens == PathTokens \cup {"?", "x=1"}

(* origin-form request targets *)
Targets == {t \in SeqsUpTo(TargetTokens, MaxTarget) : t # <<>> /\ t[1] \in PathTokens}

Requests ==
    [method : Methods,
     target : {<<"/healthz">>, <<"/healthz", "?", "x=1">>,
               <<"/bucket/key">>, <<"/bucket/key", "?", "x=1">>},
     headers : SeqsUpTo(HeaderLines, MaxHeaders),
     body : Streams]

SampleRequests ==
    { [method |-> "GET", target |-> <<"/healthz">>,
       headers |-> << [name |-> "Host", value |-> "a"] >>,
       body |-> [bytes |-> <<>>, chunks |-> <<>>]],
      [method |-> "PUT", target |-> <<"/bucket/key", "?", "x=1">>,
       headers |-> << [name |-> "Host", value |-> "a"],
                      [name |-> "x-amz-date", value |-> "b"] >>,
       body |-> [bytes |-> <<"h", "i">>, chunks |-> << <<"h">>, <<"i">> >>]] }

UpstreamStatuses == {200, 503}
Responses == [status : UpstreamStatuses, body : Streams]
SampleResponses == {u \in Responses : u.status = 200 /\ u.body.bytes # <<>>}

(* gen_range(0..1000): the ends of the range *)
Jitters == {0, JITTER_RANGE_MS - 1}
SampleJitters == {0}

BaseExample == [scheme |-> "https", authority |-> [host |-> "store.example", port |-> "443"],
                path |-> <<"/">>, query |-> NoQuery]
Bases ==
    { BaseExample,
      [BaseExample EXCEPT !.path = <<"/old">>, !.query = <<"y=2">>],
      [BaseExample EXCEPT !.scheme = NoScheme, !.path = NoPath],
      [BaseExample EXCEPT !.scheme = NoScheme, !.authority = NoAuthority, !.path = <<"/old">>] }

(* ------------------------------------------------------------------ *)
(* State                                                               *)
(* ------------------------------------------------------------------ *)
VARIABLES
    stopping,     \* the AtomicBool shared by main and every request task
    mainpc,       \* where main is: "select", "shutdown", "grace", "exited"
    s3_base_uri,  \* the parsed S3_URL
    task,         \* per request: position, locals and what it has done so far
    inflight      \* the requests that were being handled when the flag was stored

vars == <<stopping, mainpc, s3_base_uri, task, inflight>>

NoRequest == [method |-> "", target |-> <<>>, headers |-> <<>>,
              body |-> [bytes |-> <<>>, chunks |-> <<>>]]
NoUpstream == [status |-> 0, body |-> [bytes |-> <<>>, chunks |-> <<>>]]
NoResponse == [status |-> 0, body |-> <<>>]

IdleTask ==
    [pc |-> "idle",
     req |-> NoRequest,          \* the incoming request
     sawStopping |-> FALSE,      \* what stopping.load returned
     engine |-> FALSE,           \* proxy_handler was called
     bodyReads |-> 0,            \* calls of to_bytes on the incoming body
     requestRead |-> "",         \* how reading the incoming body ended: "ok" or "error"
     uri |-> UriError, method |-> "", headers |-> <<>>, body_bytes |-> <<>>,
     retry |-> 0,
     sent |-> <<>>,              \* the forwarded requests handed to the client
     calls |-> {},               \* attempts whose client.request future is alive
     upFrom |-> 0,               \* the attempt whose call delivered the response
     outcomes |-> <<>>,          \* how each attempt ended
     sleeps |-> <<>>,            \* the backoff sleeps started
     up |-> NoUpstream,          \* the upstream response obtained
     responseRead |-> "",        \* how reading its body ended: "ok" or "error"
     resp |-> NoResponse]        \* the response returned to the listener

(* ------------------------------------------------------------------ *)
(* main: lines 105-124                                                 *)
(* ------------------------------------------------------------------ *)
(* mutant: the flag is already stored in the ctrl_c branch *)
CtrlCStoresFlag ==
    /\ mainpc = "select"
    /\ mainpc' = "shutdown"
    /\ stopping' = TRUE
    /\ UNCHANGED <<s3_base_uri, task, inflight>>

(* select!: the ctrl_c branch *)
CtrlC ==
    /\ mainpc = "select"
    /\ mainpc' = "shutdown"
    /\ UNCHANGED <<stopping, s3_base_uri, task, inflight>>

(* select!: the server future ended *)
ServerEnded ==
    /\ mainpc = "select"
    /\ mainpc' = "shutdown"
    /\ UNCHANGED <<stopping, s3_base_uri, task, inflight>>

(* lines 116-118 *)
InitiateShutdown ==
    /\ mainpc = "shutdown"
    /\ stopping' = TRUE
    /\ mainpc' = "grace"
    /\ inflight' = {r \in Reqs : task[r].pc \notin {"idle", "dispatch", "done"}}
    /\ UNCHANGED <<s3_base_uri, task>>

(* mutant: main waits until no request is being handled *)
GraceElapsedWhenIdle ==
    /\ mainpc = "grace"
    /\ \A r \in Reqs : task[r].pc \in {"idle", "done"}
    /\ mainpc' = "exited"
    /\ UNCHANGED <<stopping, s3_base_uri, task, inflight>>

(* lines 121-124: the sleep ends and main returns *)
GraceElapsed ==
    /\ mainpc = "grace"
    /\ mainpc' = "exited"
    /\ UNCHANGED <<stopping, s3_base_uri, task, inflight>>

(* ------------------------------------------------------------------ *)
(* Request tasks: handle_request and proxy_handler                     *)
(* ------------------------------------------------------------------ *)
is_valid_s3_request(req) == TRUE

(* mutant: linear instead of exponential *)
BackoffLinear(retry, jitter) == 2 * retry * BACKOFF_UNIT_MS + jitter

Backoff(retry, jitter) == 2 ^ retry * BACKOFF_UNIT_MS + jitter

Respond(t, status, body) ==
    [t EXCEPT !.pc = "done", !.resp = [status |-> status, body |-> body]]

(* mutant: the loop index is not advanced *)
NextIterationSameIndex(t) == [t EXCEPT !.pc = "attempt"]

(* the for loop moves on to its next iteration *)
NextIteration(t) ==
    IF t.retry + 1 < MAX_RETRIES
    THEN [t EXCEPT !.pc = "attempt", !.retry = @ + 1]
    ELSE [t EXCEPT !.pc = "unreachable"]

(* mutant: request tasks are stopped as soon as the flag is set *)
RunningUntilDrain(r) == mainpc # "exited" /\ ~stopping

(* mutant: a sleeping request keeps the others from running *)
RunningUnlessPeerSleeps(r) ==
    mainpc # "exited" /\ \A q \in Reqs \ {r} : task[q].pc # "sleep"

(* the runtime runs the request tasks until main returns *)
Running(r) == mainpc # "exited"

(* the listener calls the service with a request *)
ArriveFrom(r, incoming) ==
    /\ Running(r)
    /\ task[r].pc = "idle"
    /\ IF r = 1 THEN TRUE ELSE task[r - 1].pc # "idle"
    /\ \E q \in incoming :
         task' = [task EXCEPT ![r] = [@ EXCEPT !.pc = "dispatch", !.req = q]]
    /\ UNCHANGED <<stopping, mainpc, s3_base_uri, inflight>>

(* mutant: the health check is answered before the flag is read *)
DispatchedHealthFirst(t) ==
    LET seen == [t EXCEPT !.sawStopping = stopping]
    IN IF UriPath(t.req.target) = HealthPath
       THEN Respond(seen, StatusOk, BodyOk)
       ELSE IF stopping
       THEN Respond(seen, StatusServiceUnavailable, BodyShuttingDown)
       ELSE [seen EXCEPT !.engine = TRUE, !.pc = "read_body",
                         !.uri = construct_uri(s3_base_uri, t.req.target),
                         !.method = t.req.method,
                         !.headers = ParseHeaders(t.req.headers)]

(* mutant: the whole request target is compared with the health path *)
DispatchedWholeTarget(t) ==
    LET seen == [t EXCEPT !.sawStopping = stopping]
    IN IF stopping
       THEN Respond(seen, StatusServiceUnavailable, BodyShuttingDown)
       ELSE IF t.req.target = HealthPath
       THEN Respond(seen, StatusOk, BodyOk)
       ELSE [seen EXCEPT !.engine = TRUE, !.pc = "read_body",
                         !.uri = construct_uri(s3_base_uri, t.req.target),
                         !.method = t.req.method,
                         !.headers = ParseHeaders(t.req.headers)]

(* mutant: the error of construct_uri is not looked at *)
DispatchedIgnoresUriError(t) ==
    LET seen == [t EXCEPT !.sawStopping = stopping]
    IN IF stopping
       THEN Respond(seen, StatusServiceUnavailable, BodyShuttingDown)
       ELSE IF UriPath(t.req.target) = HealthPath
       THEN Respond(seen, StatusOk, BodyOk)
       ELSE IF ~is_valid_s3_request(t.req)
       THEN Respond([seen EXCEPT !.engine = TRUE], StatusBadRequest, BodyInvalid)
       ELSE [seen EXCEPT !.engine = TRUE, !.pc = "read_body",
                         !.uri = construct_uri(s3_base_uri, t.req.target),
                         !.method = t.req.method,
                         !.headers = ParseHeaders(t.req.headers)]

(* handle_request up to its first await: lines 135-148 and 170-197 *)
Dispatched(t) ==
    LET seen == [t EXCEPT !.sawStopping = stopping]
        built == construct_uri(s3_base_uri, t.req.target)
    IN IF stopping
       THEN Respond(seen, StatusServiceUnavailable, BodyShuttingDown)
       ELSE IF UriPath(t.req.target) = HealthPath
       THEN Respond(seen, StatusOk, BodyOk)
       ELSE IF ~is_valid_s3_request(t.req)
       THEN Respond([seen EXCEPT !.engine = TRUE], StatusBadRequest, BodyInvalid)
       ELSE IF ~built.ok
       THEN Respond([seen EXCEPT !.engine = TRUE], StatusInternalServerError, BodyInternal)
       ELSE [seen EXCEPT !.engine = TRUE, !.pc = "read_body", !.uri = built,
                         !.method = t.req.method,
                         !.headers = ParseHeaders(t.req.headers)]

HandleRequest(r) ==
    /\ Running(r)
    /\ task[r].pc = "dispatch"
    /\ task' = [task EXCEPT ![r] = Dispatched(@)]
    /\ UNCHANGED <<stopping, mainpc, s3_base_uri, inflight>>

(* line 198: to_bytes(req.into_body()).await? *)
BodyRead(t, ok) ==
    IF ok
    THEN [t EXCEPT !.pc = "attempt", !.retry = 0, !.bodyReads = @ + 1,
                   !.requestRead = "ok",
                   !.body_bytes = to_bytes(t.req.body.chunks)]
    ELSE Respond([t EXCEPT !.bodyReads = @ + 1, !.requestRead = "error"],
                 StatusInternalServerError, BodyInternal)

ReadBody(r) ==
    /\ Running(r)
    /\ task[r].pc = "read_body"
    /\ \E ok \in BOOLEAN : task' = [task EXCEPT ![r] = BodyRead(@, ok)]
    /\ UNCHANGED <<stopping, mainpc, s3_base_uri, inflight>>

(* mutant: the body is moved into the first attempt *)
NewRequestBodyMoved(t) ==
    [retry |-> t.retry, method |-> t.method, uri |-> t.uri,
     headers |-> ForwardedHeaders(t.headers),
     body |-> IF t.retry = 0 THEN t.body_bytes ELSE <<>>]

(* lines 201-214: build new_req and hand it to the client *)
NewRequest(t) ==
    [retry |-> t.retry, method |-> t.method, uri |-> t.uri,
     headers |-> ForwardedHeaders(t.headers), body |-> t.body_bytes]

SendAttempt(r) ==
    /\ Running(r)
    /\ task[r].pc = "attempt"
    /\ task' = [task EXCEPT ![r] = [@ EXCEPT !.pc = "await",
                                             !.sent = Append(@, NewRequest(task[r])),
                                             !.calls = @ \cup {task[r].retry}]]
    /\ UNCHANGED <<stopping, mainpc, s3_base_uri, inflight>>

(* mutant: a 5xx response is retried like a failure *)
UpstreamRespondsRetries5xx(r, responses) ==
    /\ Running(r)
    /\ task[r].pc = "await"
    /\ \E u \in responses, c \in task[r].calls :
         LET got == [task[r] EXCEPT !.up = u, !.upFrom = c, !.calls = @ \ {c},
                                    !.outcomes = Append(@, "response")]
         IN task' = [task EXCEPT ![r] =
                        IF u.status >= 500 /\ got.retry < MAX_RETRIES - 1
                        THEN NextIteration(got)
                        ELSE [got EXCEPT !.pc = "read_response"]]
    /\ UNCHANGED <<stopping, mainpc, s3_base_uri, inflight>>

(* Ok(Ok(resp)): lines 215-218 *)
UpstreamRespondsFrom(r, responses) ==
    /\ Running(r)
    /\ task[r].pc = "await"
    /\ \E u \in responses, c \in task[r].calls :
         task' = [task EXCEPT ![r] = [@ EXCEPT !.pc = "read_response", !.up = u,
                                               !.upFrom = c, !.calls = @ \ {c},
                                               !.outcomes = Append(@, "response")]]
    /\ UNCHANGED <<stopping, mainpc, s3_base_uri, inflight>>

(* mutant: the reply is built with the default status *)
ResponseReadDefaultStatus(t, ok) ==
    IF ok
    THEN Respond([t EXCEPT !.responseRead = "ok"], StatusOk, to_bytes(t.up.body.chunks))
    ELSE Respond([t EXCEPT !.responseRead = "error"], StatusInternalServerError, BodyInternal)

(* mutant: a failed read of the upstream body is retried like a transport error *)
ResponseReadErrorRetried(t, ok) ==
    IF ok
    THEN Respond([t EXCEPT !.responseRead = "ok"], t.up.status, to_bytes(t.up.body.chunks))
    ELSE IF t.retry < MAX_RETRIES - 1
    THEN NextIteration([t EXCEPT !.responseRead = "error"])
    ELSE Respond([t EXCEPT !.responseRead = "error"], StatusBadGateway, BodyBadGateway)

(* lines 221-227: to_bytes(resp.into_body()).await? and the reply *)
ResponseRead(t, ok) ==
    IF ok
    THEN Respond([t EXCEPT !.responseRead = "ok"], t.up.status, to_bytes(t.up.body.chunks))
    ELSE Respond([t EXCEPT !.responseRead = "error"], StatusInternalServerError, BodyInternal)

ReadResponseBody(r) ==
    /\ Running(r)
    /\ task[r].pc = "read_response"
    /\ \E ok \in BOOLEAN : task' = [task EXCEPT ![r] = ResponseRead(@, ok)]
    /\ UNCHANGED <<stopping, mainpc, s3_base_uri, inflight>>

(* mutant: an earlier timeout decides the status of the last attempt *)
TransportFailedRemembersTimeout(t, jitter) ==
    LET failed == [t EXCEPT !.outcomes = Append(@, "error"), !.calls = @ \ {t.retry}]
    IN IF t.retry < MAX_RETRIES - 1
       THEN [failed EXCEPT !.pc = "sleep",
                           !.sleeps = Append(@, [retry |-> t.retry,
                                                 ms |-> Backoff(t.retry, jitter)])]
       ELSE IF \E i \in DOMAIN t.outcomes : t.outcomes[i] = "timeout"
       THEN Respond(failed, StatusGatewayTimeout, BodyGatewayTimeout)
       ELSE Respond(failed, StatusBadGateway, BodyBadGateway)

(* Ok(Err(e)): lines 229-243 *)
TransportFailed(t, jitter) ==
    LET failed == [t EXCEPT !.outcomes = Append(@, "error"), !.calls = @ \ {t.retry}]
    IN IF t.retry < MAX_RETRIES - 1
       THEN [failed EXCEPT !.pc = "sleep",
                           !.sleeps = Append(@, [retry |-> t.retry,
                                                 ms |-> Backoff(t.retry, jitter)])]
       ELSE Respond(failed, StatusBadGateway, BodyBadGateway)

TransportErrorFrom(r, jitters) ==
    /\ Running(r)
    /\ task[r].pc = "await"
    /\ \E jitter \in jitters : task' = [task EXCEPT ![r] = TransportFailed(@, jitter)]
    /\ UNCHANGED <<stopping, mainpc, s3_base_uri, inflight>>

(* line 236: the sleep ends *)
BackoffElapsed(r) ==
    /\ Running(r)
    /\ task[r].pc = "sleep"
    /\ task' = [task EXCEPT ![r] = NextIteration(@)]
    /\ UNCHANGED <<stopping, mainpc, s3_base_uri, inflight>>

(* mutant: the last attempt is taken to be the one before it *)
TimedOutEarly(t) ==
    LET failed == [t EXCEPT !.outcomes = Append(@, "timeout"), !.calls = @ \ {t.retry}]
    IN IF t.retry = MAX_RETRIES - 2
       THEN Respond(failed, StatusGatewayTimeout, BodyGatewayTimeout)
       ELSE NextIteration(failed)

(* mutant: a backoff sleep follows a timeout as it follows an error *)
TimedOutWithBackoff(t) ==
    LET failed == [t EXCEPT !.outcomes = Append(@, "timeout"), !.calls = @ \ {t.retry}]
    IN IF t.retry = MAX_RETRIES - 1
       THEN Respond(failed, StatusGatewayTimeout, BodyGatewayTimeout)
       ELSE [failed EXCEPT !.pc = "sleep",
                           !.sleeps = Append(@, [retry |-> t.retry,
                                                 ms |-> Backoff(t.retry, 0)])]

(* mutant: the call that timed out is left running *)
TimedOutKeepsCall(t) ==
    LET failed == [t EXCEPT !.outcomes = Append(@, "timeout")]
    IN IF t.retry = MAX_RETRIES - 1
       THEN Respond(failed, StatusGatewayTimeout, BodyGatewayTimeout)
       ELSE NextIteration(failed)

(* Err(_): lines 244-252; the Timeout future and the call it holds are
   dropped when the await returns *)
TimedOut(t) ==
    LET failed == [t EXCEPT !.outcomes = Append(@, "timeout"), !.calls = @ \ {t.retry}]
    IN IF t.retry = MAX_RETRIES - 1
       THEN Respond(failed, StatusGatewayTimeout, BodyGatewayTimeout)
       ELSE NextIteration(failed)

Timeout(r) ==
    /\ Running(r)
    /\ task[r].pc = "await"
    /\ task' = [task EXCEPT ![r] = TimedOut(@)]
    /\ UNCHANGED <<stopping, mainpc, s3_base_uri, inflight>>

(* ------------------------------------------------------------------ *)
(* Specifications                                                      *)
(* ------------------------------------------------------------------ *)
InitWith(bases) ==
    /\ stopping = FALSE
    /\ mainpc = "select"
    /\ s3_base_uri \in bases
    /\ task = [r \in Reqs |-> IdleTask]
    /\ inflight = {}

Arrive(r) == ArriveFrom(r, SampleRequests)
UpstreamResponds(r) == UpstreamRespondsFrom(r, SampleResponses)
TransportError(r) == TransportErrorFrom(r, SampleJitters)

(* several concurrent requests and the shutdown *)
Init == InitWith({BaseExample})

Next ==
    \/ CtrlC
    \/ ServerEnded
    \/ InitiateShutdown
    \/ GraceElapsed
    \/ \E r \in Reqs :
         \/ Arrive(r)
         \/ HandleRequest(r)
         \/ ReadBody(r)
         \/ SendAttempt(r)
         \/ UpstreamResponds(r)
         \/ ReadResponseBody(r)
         \/ TransportError(r)
         \/ BackoffElapsed(r)
         \/ Timeout(r)

Spec == Init /\ [][Next]_vars

(* the shutdown against an upstream that never answers: main is scheduled
   and its timer fires; nothing is assumed of the requests *)
NextShutdown ==
    \/ CtrlC
    \/ ServerEnded
    \/ InitiateShutdown
    \/ GraceElapsed
    \/ \E r \in Reqs :
         \/ Arrive(r)
         \/ HandleRequest(r)
         \/ ReadBody(r)
         \/ SendAttempt(r)
         \/ TransportError(r)
         \/ BackoffElapsed(r)
         \/ Timeout(r)

SpecShutdown ==
    Init /\ [][NextShutdown]_vars /\ WF_vars(InitiateShutdown) /\ WF_vars(GraceElapsed)

(* the requests while main serves: each task is scheduled, the incoming
   body arrives, the race of line 214 ends (at the latest by its timeout)
   and a backoff sleep ends; nothing makes the upstream send the body of a
   response it has begun *)
AwaitEnds(r) == UpstreamResponds(r) \/ TransportError(r) \/ Timeout(r)

NextLive ==
    \E r \in Reqs :
        \/ Arrive(r)
        \/ HandleRequest(r)
        \/ ReadBody(r)
        \/ SendAttempt(r)
        \/ UpstreamResponds(r)
        \/ ReadResponseBody(r)
        \/ TransportError(r)
        \/ BackoffElapsed(r)
        \/ Timeout(r)

FairLive ==
    \A r \in Reqs :
        /\ WF_vars(HandleRequest(r))
        /\ WF_vars(ReadBody(r))
        /\ WF_vars(SendAttempt(r))
        /\ WF_vars(AwaitEnds(r))
        /\ WF_vars(BackoffElapsed(r))

SpecLive == Init /\ [][NextLive]_vars /\ FairLive

(* one request, any method, headers, body and upstream response *)
ArriveAny == ArriveFrom(1, Requests)
UpstreamRespondsAny == UpstreamRespondsFrom(1, Responses)
TransportErrorAny == TransportErrorFrom(1, Jitters)

NextEngine ==
    \/ CtrlC
    \/ InitiateShutdown
    \/ ArriveAny
    \/ HandleRequest(1)
    \/ ReadBody(1)
    \/ SendAttempt(1)
    \/ UpstreamRespondsAny
    \/ ReadResponseBody(1)
    \/ TransportErrorAny
    \/ BackoffElapsed(1)
    \/ Timeout(1)

SpecEngine == Init /\ [][NextEngine]_vars

(* the URI Builder on any base and any request target *)
InitUri == InitWith(Bases)

UriRequests == {q \in [method : {"GET"}, target : Targets, headers : {<<>>},
                       body : {NoRequest.body}] : TRUE}
ArriveUri == ArriveFrom(1, UriRequests)

NextUri ==
    \/ ArriveUri
    \/ HandleRequest(1)

SpecUri == InitUri /\ [][NextUri]_vars

(* one request against every form of S3_URL *)
NextBases ==
    \/ Arrive(1)
    \/ HandleRequest(1)
    \/ ReadBody(1)
    \/ SendAttempt(1)
    \/ UpstreamResponds(1)
    \/ ReadResponseBody(1)
    \/ TransportError(1)
    \/ BackoffElapsed(1)
    \/ Timeout(1)

SpecBases == InitUri /\ [][NextBases]_vars

(* ------------------------------------------------------------------ *)
(* Properties                                                          *)
(* ------------------------------------------------------------------ *)
Last(s) == s[Len(s)]
Occurrences(s, x) == Cardinality({i \in DOMAIN s : s[i] = x})
IsHealth(t) == UriPath(t.req.target) = HealthPath
LeavesDispatch(r) == task[r].pc = "dispatch" /\ task'[r].pc # "dispatch"
Untouched(t) == ~t.engine /\ t.bodyReads = 0 /\ t.sent = <<>> /\ t.outcomes = <<>>

(* C1: a request dispatched while the shutdown flag is true, whatever its
   path, is answered 503 in that very step, without proxy_handler, without a
   read of its body and without an upstream attempt, and a request that has
   its response does nothing more *)
C1_DrainingAnswers503 ==
    [][\A r \in Reqs :
         /\ (stopping /\ LeavesDispatch(r)) =>
              /\ task'[r].pc = "done"
              /\ task'[r].resp = [status |-> 503, body |-> BodyShuttingDown]
              /\ Untouched(task'[r])
         /\ task[r].pc = "done" => task'[r] = task[r]]_vars

C1_Witness ==
    \E r1, r2 \in Reqs :
        /\ task[r1].sawStopping /\ IsHealth(task[r1]) /\ task[r1].resp.status = 503
        /\ task[r2].sawStopping /\ ~IsHealth(task[r2]) /\ task[r2].resp.status = 503

(* C2: a request to the path /healthz dispatched while the flag is false,
   whatever its method, headers, query or body, is answered 200 with body OK
   in that step, and the forwarding engine is not entered: no body read, no
   upstream attempt *)
C2_HealthAnswers200 ==
    [][\A r \in Reqs :
         /\ (~stopping /\ LeavesDispatch(r) /\ IsHealth(task[r])) =>
              /\ task'[r].pc = "done"
              /\ task'[r].resp = [status |-> 200, body |-> <<"OK">>]
              /\ Untouched(task'[r])
         /\ task[r].pc = "done" => task'[r] = task[r]]_vars

C2_Witness ==
    \E r \in Reqs :
        /\ task[r].pc = "done" /\ ~task[r].sawStopping
        /\ task[r].req.method = "PUT"
        /\ task[r].req.target = <<"/healthz", "?", "x=1">>
        /\ Len(task[r].req.headers) = 2
        /\ task[r].req.body.bytes # <<>>
        /\ task[r].resp.status = 200

(* C3: a request makes at most MAX_RETRIES upstream attempts, and the i-th
   attempt carries index i-1: the indices 0..MAX_RETRIES-1 in increasing
   order, each at most once *)
C3_AtMostMaxRetries ==
    \A r \in Reqs :
        /\ Len(task[r].sent) <= 3
        /\ \A i \in DOMAIN task[r].sent : task[r].sent[i].retry = i - 1
        /\ Len(task[r].outcomes) <= Len(task[r].sent)

C3_Witness ==
    \E r \in Reqs :
        /\ task[r].pc = "done"
        /\ task[r].outcomes = <<"error", "timeout", "response">>
        /\ Len(task[r].sent) = 3

(* C4: a finished request whose attempts all ended in transport errors has
   status 502, one whose attempts all timed out has status 504, and either
   response comes after exactly MAX_RETRIES attempts *)
AllAttempts(t, kind) ==
    t.outcomes # <<>> /\ \A i \in DOMAIN t.outcomes : t.outcomes[i] = kind

C4_ExhaustedStatus ==
    \A r \in Reqs :
        task[r].pc = "done" =>
            /\ AllAttempts(task[r], "error") =>
                 task[r].resp.status = 502 /\ Len(task[r].sent) = 3
            /\ AllAttempts(task[r], "timeout") =>
                 task[r].resp.status = 504 /\ Len(task[r].sent) = 3

C4_Witness ==
    /\ task[1].pc = "done"
    /\ task[1].outcomes = <<"timeout", "timeout", "timeout">>
    /\ task[1].resp = [status |-> 504, body |-> BodyGatewayTimeout]

(* C5, as claimed: a finished request that obtained an upstream response
   carries the upstream's status and the upstream's bytes *)
C5_AsClaimed ==
    \A r \in Reqs :
        (task[r].pc = "done" /\ task[r].up # NoUpstream) =>
            task[r].resp = [status |-> task[r].up.status, body |-> task[r].up.body.bytes]

(* C5, amended: a finished request that obtained an upstream response and
   read its body to the end carries the upstream's status and bytes; when
   reading that body failed it carries 500 Internal Server Error; it never
   carries the 502 or 504 reply of the proxy, and no attempt follows the
   one that obtained the response *)
C5_PassThroughOrInternalError ==
    \A r \in Reqs :
        (task[r].pc = "done" /\ task[r].up # NoUpstream) =>
            /\ task[r].responseRead \in {"ok", "error"}
            /\ task[r].responseRead = "ok" =>
                 task[r].resp = [status |-> task[r].up.status,
                                 body |-> task[r].up.body.bytes]
            /\ task[r].responseRead = "error" =>
                 task[r].resp = [status |-> 500, body |-> BodyInternal]
            /\ Last(task[r].outcomes) = "response"
            /\ Len(task[r].sent) = Len(task[r].outcomes)

C5_Witness ==
    /\ task[1].pc = "done"
    /\ task[1].outcomes = <<"error", "response">>
    /\ task[1].up.status = 503
    /\ task[1].up.body.bytes = <<"h", "i">>
    /\ task[1].resp = [status |-> 503, body |-> <<"h", "i">>]

(* C6: a request that read the flag as false is never answered with the
   shutdown rejection; while main has not returned it can always take its
   next step, flag set or not; and when it finishes its response is the one
   its own attempts decide. A request that read the flag as true has 503 *)
TaskStep(r) ==
    \/ HandleRequest(r)
    \/ ReadBody(r)
    \/ SendAttempt(r)
    \/ UpstreamResponds(r)
    \/ ReadResponseBody(r)
    \/ TransportError(r)
    \/ BackoffElapsed(r)
    \/ Timeout(r)

ForwardingOutcome(t) ==
    IF IsHealth(t) THEN [status |-> 200, body |-> BodyOk]
    ELSE IF t.outcomes = <<>> THEN [status |-> 500, body |-> BodyInternal]
    ELSE IF Last(t.outcomes) = "error" THEN [status |-> 502, body |-> BodyBadGateway]
    ELSE IF Last(t.outcomes) = "timeout" THEN [status |-> 504, body |-> BodyGatewayTimeout]
    ELSE IF t.responseRead = "ok" THEN [status |-> t.up.status, body |-> t.up.body.bytes]
    ELSE [status |-> 500, body |-> BodyInternal]

C6_InFlightUnaffected ==
    \A r \in Reqs :
        /\ (task[r].pc \notin {"idle", "dispatch"} /\ ~task[r].sawStopping) =>
             /\ task[r].resp.body # BodyShuttingDown
             /\ (task[r].pc # "done" /\ mainpc # "exited") => ENABLED TaskStep(r)
             /\ task[r].pc = "done" => task[r].resp = ForwardingOutcome(task[r])
        /\ task[r].sawStopping =>
             task[r].pc = "done" /\ task[r].resp.status = 503

C6_Witness ==
    \E r1, r2 \in Reqs :
        /\ stopping
        /\ r1 \in inflight /\ ~task[r1].sawStopping
        /\ task[r1].pc = "done"
        /\ task[r1].outcomes = <<"error", "error", "response">>
        /\ task[r1].resp.status = 200
        /\ task[r2].sawStopping /\ task[r2].resp.status = 503

(* C7: the incoming body is read at most once, and before the first
   attempt; every attempt carries the bytes the client sent, the method of
   the incoming request and one and the same rewritten URI *)
C7_SameRequestEveryAttempt ==
    \A r \in Reqs :
        /\ task[r].bodyReads <= 1
        /\ task[r].sent # <<>> => task[r].bodyReads = 1
        /\ \A i \in DOMAIN task[r].sent :
             /\ task[r].sent[i].body = task[r].req.body.bytes
             /\ task[r].sent[i].method = task[r].req.method
             /\ task[r].sent[i].uri = task[r].sent[1].uri

C7_Witness ==
    /\ Len(task[1].sent) = 3
    /\ task[1].outcomes = <<"timeout", "error">>
    /\ task[1].req.method = "PUT"
    /\ task[1].sent[3].body = <<"h", "i">>

(* C8: no attempt carries a header named host in any letter case, and
   every other header line of the incoming request is carried by every
   attempt, as often as it came and with its value *)
HostSpellings == {"host", "Host", "HOST"}
OtherLines(lines) ==
    SelectSeq(ParseHeaders(lines), LAMBDA e : e.name \notin HostSpellings)

C8_HostStripped ==
    \A r \in Reqs :
        \A i \in DOMAIN task[r].sent :
            LET fwd == task[r].sent[i].headers
                kept == OtherLines(task[r].req.headers)
            IN /\ \A k \in DOMAIN fwd : fwd[k].name \notin HostSpellings
               /\ Len(fwd) = Len(kept)
               /\ \A k \in DOMAIN kept : Occurrences(fwd, kept[k]) = Occurrences(kept, kept[k])

C8_Witness ==
    /\ Len(task[1].sent) = 2
    /\ task[1].req.headers = << [name |-> "Host", value |-> "a"],
                               [name |-> "x-amz-date", value |-> "b"] >>
    /\ task[1].sent[2].headers = << [name |-> "x-amz-date", value |-> "b"] >>

(* C9: a backoff sleep started in the iteration of attempt a lasts at least
   2^a * 1000 and less than 2^a * 1000 + 1000 milliseconds, and a is below
   MAX_RETRIES - 1 *)
C9_BackoffRange ==
    \A r \in Reqs :
        \A i \in DOMAIN task[r].sleeps :
            LET a == task[r].sleeps[i].retry
                ms == task[r].sleeps[i].ms
            IN /\ a \in 0..1
               /\ 2 ^ a * 1000 <= ms
               /\ ms < 2 ^ a * 1000 + 1000

C9_Witness ==
    /\ Len(task[1].sleeps) = 2
    /\ task[1].sleeps[1] = [retry |-> 0, ms |-> 1000]
    /\ task[1].sleeps[2] = [retry |-> 1, ms |-> 2999]

(* C10: a URI the builder returns has the scheme and the authority (host
   and port) of the base, the path of the request and the query of the
   request, or none when the request has none; nothing of the base's own
   path and query is left in its text; the base https://store.example:443
   with /bucket/key and x=1 gives https://store.example:443/bucket/key?x=1 *)
C10_UriBuilder ==
    \A r \in Reqs :
        task[r].uri.ok =>
            LET u == task[r].uri
                target == task[r].req.target
                origin == IF s3_base_uri.scheme = NoScheme THEN <<>>
                          ELSE <<s3_base_uri.scheme, "://", s3_base_uri.authority.host,
                                 ":", s3_base_uri.authority.port>>
            IN /\ u.scheme = s3_base_uri.scheme
               /\ u.authority = s3_base_uri.authority
               /\ u.path = UriPath(target)
               /\ u.query = UriQuery(target)
               /\ UriText(u) = origin \o target
               /\ (s3_base_uri = BaseExample /\ target = <<"/bucket/key", "?", "x=1">>) =>
                    UriText(u) = <<"https", "://", "store.example", ":", "443",
                                   "/bucket/key", "?", "x=1">>

C10_Witness ==
    /\ task[1].uri.ok
    /\ s3_base_uri.path = <<"/old">> /\ s3_base_uri.query = <<"y=2">>
    /\ task[1].req.target = <<"/bucket/key", "?", "x=1">>
    /\ UriText(task[1].uri) = <<"https", "://", "store.example", ":", "443",
                               "/bucket/key", "?", "x=1">>

(* C11: once select! has ended, main stores the flag, sleeps the grace
   period and returns, whatever the requests do or fail to do; main returns
   only out of that sleep, with the flag set, and a request still being
   handled does not hold it back *)
C11_GraceThenExit ==
    /\ (mainpc # "select") ~> (mainpc = "exited")
    /\ [][(mainpc' = "exited" /\ mainpc # "exited") => (mainpc = "grace" /\ stopping)]_vars
    /\ [](mainpc = "grace" => ENABLED GraceElapsed)

C11_Witness ==
    /\ mainpc = "exited"
    /\ task[1].pc = "sleep" /\ Len(task[1].outcomes) = 2
    /\ task[2].pc = "await"

(* C12: the flag is false until main stores it, true from then on; the one
   step that changes it is main's store after select! has ended, which
   touches no request; no step of a request changes it and no step turns it
   back to false *)
C12_FlagWrittenOnce ==
    /\ [](stopping <=> mainpc \in {"grace", "exited"})
    /\ [][/\ stopping => stopping'
          /\ stopping' # stopping =>
               (mainpc = "shutdown" /\ mainpc' = "grace" /\ task' = task)
          /\ mainpc = "grace" => mainpc' \in {"grace", "exited"}
          /\ mainpc = "exited" => mainpc' = "exited"]_vars

C12_Witness ==
    /\ stopping /\ mainpc = "exited"
    /\ \E r \in Reqs : task[r].pc = "done" /\ task[r].sawStopping
    /\ \E r \in inflight : task[r].pc = "done" /\ Len(task[r].sent) = 3

(* C13: the backoff sleeps of a request are, in order, those of its
   attempts that ended in a transport error and were not the last allowed
   one: none after a timeout, none after a response, none after attempt
   MAX_RETRIES - 1; a request is asleep only right after such an error; so
   a response on attempt k after k transport errors comes after k sleeps *)
ErrorsBeforeLast(t) ==
    {i - 1 : i \in {j \in DOMAIN t.outcomes : t.outcomes[j] = "error" /\ j < 3}}

C13_SleepOnlyAfterError ==
    \A r \in Reqs :
        LET t == task[r]
        IN /\ {t.sleeps[j].retry : j \in DOMAIN t.sleeps} = ErrorsBeforeLast(t)
           /\ Len(t.sleeps) = Cardinality(ErrorsBeforeLast(t))
           /\ \A j \in DOMAIN t.sleeps :
                \A k \in DOMAIN t.sleeps : j < k => t.sleeps[j].retry < t.sleeps[k].retry
           /\ t.pc = "sleep" =>
                (Last(t.outcomes) = "error" /\ Len(t.sent) = Len(t.outcomes))
           /\ (t.outcomes # <<>> /\ Last(t.outcomes) = "timeout" /\ t.pc # "done") =>
                t.pc \in {"attempt", "await"}

C13_Witness ==
    /\ task[1].pc = "done"
    /\ task[1].outcomes = <<"error", "error", "response">>
    /\ Len(task[1].sleeps) = 2
    /\ task[1].resp.status = 200

(* C14: a request has at most one upstream call alive, that of its current
   attempt, and only while it awaits it; the call of an attempt that timed
   out or failed is gone before the next attempt is issued, and the
   response a request obtained came from its latest attempt *)
C14_OneCallAtATime ==
    \A r \in Reqs :
        LET t == task[r]
        IN /\ Cardinality(t.calls) <= 1
           /\ t.calls # {} <=> t.pc = "await"
           /\ t.calls \subseteq {Len(t.sent) - 1}
           /\ t.up # NoUpstream => t.upFrom = Len(t.sent) - 1

C14_Witness ==
    /\ task[1].pc = "await"
    /\ task[1].outcomes = <<"timeout", "timeout">>
    /\ task[1].calls = {2}

(* C15: every request handed to proxy_handler eventually has its response,
   also when the upstream falls silent at any point *)
C15_AsClaimed ==
    \A r \in Reqs : task[r].engine ~> (task[r].pc = "done")

(* C16: a request the validator rejects is answered 400 and one whose URI
   cannot be built is answered 500, each in the dispatch step, the validator
   being asked first, with no read of the incoming body, no attempt and no
   sleep; an attempt after the first is made only after a transport error
   or a timeout of the one before *)
NoForwarding(t) ==
    t.bodyReads = 0 /\ t.sent = <<>> /\ t.sleeps = <<>> /\ t.outcomes = <<>>

C16_OnlyErrorsAndTimeoutsRetried ==
    /\ [][\A r \in Reqs :
            (~stopping /\ LeavesDispatch(r) /\ ~IsHealth(task[r])) =>
                /\ ~is_valid_s3_request(task[r].req) =>
                     /\ task'[r].pc = "done"
                     /\ task'[r].resp = [status |-> 400, body |-> BodyInvalid]
                /\ (is_valid_s3_request(task[r].req)
                    /\ ~construct_uri(s3_base_uri, task[r].req.target).ok) =>
                     /\ task'[r].pc = "done"
                     /\ task'[r].resp = [status |-> 500, body |-> BodyInternal]
                /\ NoForwarding(task'[r])]_vars
    /\ [](\A r \in Reqs :
            /\ (task[r].pc = "done" /\ task[r].engine /\ task[r].bodyReads = 0) =>
                 (NoForwarding(task[r]) /\ task[r].resp.status \in {400, 500})
            /\ \A i \in DOMAIN task[r].sent :
                 i > 1 => task[r].outcomes[i - 1] \in {"error", "timeout"})

C16_Witness ==
    /\ s3_base_uri.scheme = NoScheme /\ s3_base_uri.authority # NoAuthority
    /\ task[1].pc = "done" /\ task[1].engine
    /\ task[1].resp = [status |-> 500, body |-> BodyInternal]
    /\ NoForwarding(task[1])

(* C17: a failed read of the incoming body or of the upstream body ends the
   request with 500 Internal Server Error and nothing else: no attempt
   follows, the flag, main and the other requests are as they were; every
   request that has ended has a response *)
ReadFailed(t) == t.requestRead = "error" \/ t.responseRead = "error"

C17_ReadErrorIs500 ==
    /\ [](\A r \in Reqs :
            /\ ReadFailed(task[r]) =>
                 /\ task[r].pc = "done"
                 /\ task[r].resp = [status |-> 500, body |-> BodyInternal]
                 /\ Len(task[r].sent) = Len(task[r].outcomes)
                 /\ task[r].requestRead = "error" => task[r].sent = <<>>
            /\ task[r].pc \in {"idle", "dispatch", "read_body", "attempt", "await",
                               "sleep", "read_response", "done"}
            /\ task[r].pc = "done" => task[r].resp.status \in 200..599)
    /\ [][\A r \in Reqs :
            (~ReadFailed(task[r]) /\ ReadFailed(task'[r])) =>
                /\ stopping' = stopping /\ mainpc' = mainpc
                /\ \A q \in Reqs \ {r} : task'[q] = task[q]]_vars

C17_Witness ==
    /\ ~stopping
    /\ task[1].responseRead = "error" /\ Len(task[1].sent) = 2
    /\ task[1].resp.status = 500
    /\ task[2].requestRead = "error" /\ task[2].resp.status = 500

(* C18: while a request waits for the upstream, races the timeout, sleeps
   in backoff or reads a body, and main has not returned, every other
   request that has arrived and has no response yet can take its next step,
   and the next request can arrive *)
Suspended(t) == t.pc \in {"read_body", "await", "sleep", "read_response"}

C18_NoBlocking ==
    \A r \in Reqs : \A q \in Reqs \ {r} :
        (Suspended(task[r]) /\ mainpc # "exited") =>
            /\ task[q].pc \notin {"idle", "done"} => ENABLED TaskStep(q)
            /\ task[q].pc = "dispatch" => ENABLED HandleRequest(q)
            /\ task[q].pc = "sleep" => ENABLED BackoffElapsed(q)
            /\ (task[q].pc = "idle" /\ q = r + 1) => ENABLED Arrive(q)

C18_Witness ==
    /\ task[1].pc = "sleep" /\ Len(task[1].outcomes) = 1
    /\ task[2].pc = "done" /\ IsHealth(task[2]) /\ task[2].resp.status = 200
    /\ ~stopping

(* C19: a request that used up its attempts without a response has 502 when
   its last attempt ended in a transport error and 504 when it timed out,
   whatever the earlier failures were *)
C19_LastFailureDecides ==
    \A r \in Reqs :
        (task[r].pc = "done" /\ Len(task[r].outcomes) = 3
         /\ \A i \in DOMAIN task[r].outcomes : task[r].outcomes[i] # "response") =>
            /\ task[r].outcomes[3] = "error" =>
                 task[r].resp = [status |-> 502, body |-> BodyBadGateway]
            /\ task[r].outcomes[3] = "timeout" =>
                 task[r].resp = [status |-> 504, body |-> BodyGatewayTimeout]

C19_Witness ==
    /\ task[1].pc = "done"
    /\ task[1].outcomes = <<"timeout", "error", "error">>
    /\ task[1].resp.status = 502

(* C20: once an attempt has obtained a response, of whatever status, the
   request makes no further attempt and starts no sleep: it reads the body
   and ends *)
Answered(t) == \E i \in DOMAIN t.outcomes : t.outcomes[i] = "response"

C20_ResponseEndsLoop ==
    [][\A r \in Reqs :
         Answered(task[r]) =>
            /\ task'[r].sent = task[r].sent
            /\ task'[r].sleeps = task[r].sleeps
            /\ task'[r].outcomes = task[r].outcomes
            /\ task[r].pc \in {"read_response", "done"}
            /\ task'[r].pc \in {"read_response", "done"}]_vars

C20_Witness ==
    /\ task[1].pc = "done"
    /\ task[1].outcomes = <<"response">>
    /\ task[1].up.status = 503
    /\ task[1].resp.status = 503
    /\ Len(task[1].sent) = 1 /\ task[1].sleeps = <<>>

====
